---- MODULE Spec2Model ----
(***************************************************************************)
(* A model of script.js: the score -> colour / distortion mapping, the     *)
(* glyph-outline distortion, the greedy word wrap and the render handler   *)
(* drawOutput with the event handlers that call it.                        *)
(*                                                                         *)
(* JavaScript numbers are modelled as exact rationals [n |-> _, d |-> _]   *)
(* in lowest terms with d > 0, so that sums, interpolation, rounding and   *)
(* the tie cases of comparisons are computed as the code computes them     *)
(* (floating-point rounding error is not modelled).                        *)
(***************************************************************************)
EXTENDS Integers, Sequences, FiniteSets, TLC

\* ------------------------------------------------------------- numbers

Abs(k) == IF k < 0 THEN -k ELSE k

RECURSIVE Gcd(_, _)
Gcd(a, b) == IF b = 0 THEN a ELSE Gcd(b, a % b)

\* The rational n/d, d # 0, in lowest terms with a positive denominator.
Rat(n, d) ==
  LET g == Gcd(Abs(n), Abs(d))
      s == IF d < 0 THEN -1 ELSE 1
  IN [n |-> (s * n) \div g, d |-> (s * d) \div g]

Num(k) == [n |-> k, d |-> 1]
Add(a, b) == Rat(a.n * b.d + b.n * a.d, a.d * b.d)
Sub(a, b) == Rat(a.n * b.d - b.n * a.d, a.d * b.d)
Mul(a, b) == Rat(a.n * b.n, a.d * b.d)
Le(a, b) == a.n * b.d <= b.n * a.d
Lt(a, b) == a.n * b.d < b.n * a.d
RMax(a, b) == IF Lt(a, b) THEN b ELSE a
RMin(a, b) == IF Lt(b, a) THEN b ELSE a
RAbs(a) == [n |-> Abs(a.n), d |-> a.d]

\* Math.round: the nearest integer, a tie going to the larger one.
MathRound(a) == (2 * a.n + a.d) \div (2 * a.d)

\* null, and JavaScript's test of a value in a condition or before ||.
None == [none |-> TRUE]
Str(str) == [str |-> str]
Truthy(v) == v # None /\ v # Str("") /\ v # Num(0)
OrElse(a, b) == IF Truthy(a) THEN a ELSE b

\* -------------------------------------------------------------- config

MAX_EXTRA_POINTS == 10
MAX_BLUR_PX == 4

\* -------------------------------------------------------------- bounds

\* Scores and distortion levels are the multiples of 1/ScoreDen.
ScoreDen == 24
\* Math.random draws are the multiples of 1/RndDen in [0, 1).
RndDen == 3

\* ------------------------------------------------ visual mapping logic

VARIABLES
  score, distortion, color,     \* scoreToDistortion / scoreToColor: argument and results
  path, distortionLevel, input, \* distortPath: the path object, the level, the commands passed in
  text, maxWidth, scale, letterSpacing, lines,  \* layoutTextIntoLines: arguments and result
  font, dataByCountry, currentCountry, currentYear, currentScore,  \* module state
  textInput, countrySelect, yearSlider,         \* DOM inputs
  fontSizeInput, letterSpacingInput, lineHeightInput, canvas,
  labels,   \* textContent of the value labels the handlers write
  trace,    \* what the last drawOutput call wrote to the panel, wrapper and canvas
  pen,      \* the last drawOutput call's lines with x before and after the glyph loop
  threw,    \* whether the last drawOutput call ended in an exception
  atCall,   \* the module state the last drawOutput call started from
  pc

\* A plausible slip: the inversion without the clamp.
scoreToDistortionUnclamped(s) == Sub(Num(1), s)

scoreToDistortion(s) ==
  LET clamped == RMax(Num(0), RMin(Num(1), s))
  IN Sub(Num(1), clamped)

lerp(a, b, t) == Add(a, Mul(Sub(b, a), t))

\* A plausible slip: the anchors of the red channel swapped.
scoreToColorSwapped(sc) ==
  LET s == RMax(Num(0), RMin(Num(1), sc))
  IN [r |-> MathRound(lerp(Num(20), Num(220), s)),
      g |-> MathRound(lerp(Num(40), Num(210), s)),
      b |-> MathRound(lerp(Num(40), Num(120), s))]

scoreToColor(sc) ==
  LET s == RMax(Num(0), RMin(Num(1), sc))
      r == lerp(Num(220), Num(20), s)
      g == lerp(Num(40), Num(210), s)
      b == lerp(Num(40), Num(120), s)
  IN [r |-> MathRound(r), g |-> MathRound(g), b |-> MathRound(b)]

\* --------------------------------------------- typographic distortion

\* Math.random(): the n-th draw of a call, a multiple of 1/RndDen in [0, 1).
Random(stream, n) == Rat(stream[((n - 1) % Len(stream)) + 1], RndDen)

\* The inner loop of an L (factor 6) or Q/C (factor 10) branch: the points
\* pushed before the command, the i-th from draws drawn+2i-1 and drawn+2i.
Subdivide(prevX, prevY, targetX, targetY, extraPoints, level, factor, stream, drawn) ==
  [i \in 1 .. extraPoints |->
     LET t == Rat(i, extraPoints + 1)
         baseX == Add(prevX, Mul(Sub(targetX, prevX), t))
         baseY == Add(prevY, Mul(Sub(targetY, prevY), t))
         jitter == Mul(level, Num(factor))
         jx == Mul(Sub(Random(stream, drawn + 2 * i - 1), Rat(1, 2)), jitter)
         jy == Mul(Sub(Random(stream, drawn + 2 * i), Rat(1, 2)), jitter)
     IN [type |-> "L", x |-> Add(baseX, jx), y |-> Add(baseY, jy)]]

\* The jitter range (peak to peak, per unit of level) of the branch of a command.
\* A plausible slip: the curve branch's factor pasted into the line branch.
JitterFactorPasted(type) == 10

JitterFactor(type) == IF type = "L" THEN 6 ELSE 10

\* The for loop over path.commands, from command k on.
RECURSIVE DistortWalk(_, _, _, _, _, _, _, _)
DistortWalk(commands, k, prevX, prevY, extraPoints, level, stream, newCommands) ==
  IF k > Len(commands) THEN newCommands
  ELSE
    LET cmd == commands[k]
        drawn == 2 * (Len(newCommands) - (k - 1))
    IN IF cmd.type = "M"
       THEN DistortWalk(commands, k + 1, cmd.x, cmd.y, extraPoints, level, stream,
                        Append(newCommands, cmd))
       ELSE IF cmd.type = "L"
       THEN DistortWalk(commands, k + 1, cmd.x, cmd.y, extraPoints, level, stream,
                        Append(newCommands \o
                               Subdivide(prevX, prevY, cmd.x, cmd.y, extraPoints,
                                         level, JitterFactor(cmd.type), stream, drawn), cmd))
       ELSE IF cmd.type = "Q" \/ cmd.type = "C"
       THEN DistortWalk(commands, k + 1, cmd.x, cmd.y, extraPoints, level, stream,
                        Append(newCommands \o
                               Subdivide(prevX, prevY, cmd.x, cmd.y, extraPoints,
                                         level, JitterFactor(cmd.type), stream, drawn), cmd))
       ELSE DistortWalk(commands, k + 1, prevX, prevY, extraPoints, level, stream,
                        Append(newCommands, cmd))

\* A plausible slip: Math.floor where the code has Math.round.
distortPathFloor(commands, level, stream) ==
  IF Le(level, Num(0)) THEN commands
  ELSE LET extraPoints == (Mul(level, Num(MAX_EXTRA_POINTS))).n
                            \div (Mul(level, Num(MAX_EXTRA_POINTS))).d
       IN IF extraPoints <= 0 THEN commands
          ELSE DistortWalk(commands, 1, Num(0), Num(0), extraPoints, level, stream, <<>>)

\* path.commands after distortPath(path, distortionLevel) with the draws of stream.
distortPath(commands, level, stream) ==
  IF Le(level, Num(0)) THEN commands
  ELSE LET extraPoints == MathRound(Mul(level, Num(MAX_EXTRA_POINTS)))
       IN IF extraPoints <= 0 THEN commands
          ELSE DistortWalk(commands, 1, Num(0), Num(0), extraPoints, level, stream, <<>>)

\* The longest glyph outline passed to distortPath.
MaxCmds == 3

PointA == [x |-> Num(4), y |-> Num(-2)]
PointB == [x |-> Num(-1), y |-> Num(3)]

\* Outline commands as opentype.js gives them: Q and C carry control points,
\* Z carries no coordinates.
Commands ==
  {[type |-> "M", x |-> PointA.x, y |-> PointA.y],
   [type |-> "L", x |-> PointB.x, y |-> PointB.y],
   [type |-> "Q", x1 |-> Num(1), y1 |-> Num(1), x |-> PointA.x, y |-> PointA.y],
   [type |-> "C", x1 |-> Num(1), y1 |-> Num(1), x2 |-> Num(2), y2 |-> Num(2),
    x |-> PointB.x, y |-> PointB.y],
   [type |-> "Z"]}

Paths == UNION {[1 .. n -> Commands] : n \in 0 .. MaxCmds}

\* Distortion levels k/ScoreDen: negative, zero, too small for an extra point,
\* the smallest with one, a rounding tie, a half, the maximum 1, and above it.
Levels ==
  {Rat(k, ScoreDen) : k \in {-1, 0, 1, 2, ScoreDen \div 4, ScoreDen \div 2,
                             ScoreDen, ScoreDen + 2}}

RandomStreams == [1 .. 2 -> 0 .. (RndDen - 1)]


\* ------------------------------------------------ text layout (wrapping)

\* Strings are sequences of one-character strings.
Whitespace == {" ", "\t"}

\* The font opentype.js loaded: advance widths in font units; every glyph
\* outline is a triangle or, for white space, empty.
LoadedFont ==
  [unitsPerEm |-> 1000,
   glyphs |->
     [ch \in {"A", "B", " ", "\t", "f", "o", "n", "t"} |->
        [advanceWidth |-> CASE ch = "A" -> 600 [] ch = "B" -> 500
                            [] ch \in {"o", "n"} -> 500 [] OTHER -> 250,
         commands |-> IF ch \in Whitespace THEN <<>>
                      ELSE <<[type |-> "M", x |-> 0, y |-> 0],
                             [type |-> "L", x |-> 300, y |-> 700],
                             [type |-> "L", x |-> 500, y |-> 0],
                             [type |-> "Z"]>>]]]

charToGlyph(fnt, ch) == fnt.glyphs[ch]

\* A plausible slip: letter spacing only between characters, one fewer than the code adds.
RECURSIVE measureLineWidthInner(_, _, _, _)
measureLineWidthInner(str, fnt, sc, spacing) ==
  IF str = <<>> THEN Num(0)
  ELSE Add(measureLineWidthInner(SubSeq(str, 1, Len(str) - 1), fnt, sc, spacing),
           Add(Mul(Num(charToGlyph(fnt, str[Len(str)]).advanceWidth), sc),
               IF Len(str) = 1 THEN Num(0) ELSE spacing))

RECURSIVE measureLineWidth(_, _, _, _)
measureLineWidth(str, fnt, sc, spacing) ==
  IF str = <<>> THEN Num(0)
  ELSE Add(measureLineWidth(SubSeq(str, 1, Len(str) - 1), fnt, sc, spacing),
           Add(Mul(Num(charToGlyph(fnt, str[Len(str)]).advanceWidth), sc), spacing))

\* text.split(/\s+/): the pieces between the maximal runs of white space; a
\* run at the start or the end leaves an empty piece, "" gives [""].
RECURSIVE SplitWhitespace(_)
SplitWhitespace(str) ==
  LET ws == {i \in 1 .. Len(str) : str[i] \in Whitespace}
  IN IF ws = {} THEN <<str>>
     ELSE LET first == CHOOSE i \in ws : \A h \in ws : i <= h
              rest == {i \in first .. Len(str) : str[i] \notin Whitespace}
              next == IF rest = {} THEN Len(str) + 1
                      ELSE CHOOSE i \in rest : \A h \in rest : i <= h
          IN <<SubSeq(str, 1, first - 1)>>
               \o SplitWhitespace(SubSeq(str, next, Len(str)))

\* Plausible slips in the test of line 328: >= for >, and the word measured
\* in place of the test line.
OverflowsAtTie(testLine, currentLine, word, width, fnt, sc, spacing) ==
  Le(width, measureLineWidth(testLine, fnt, sc, spacing)) /\ currentLine # <<>>

OverflowsWordOnly(testLine, currentLine, word, width, fnt, sc, spacing) ==
  Lt(width, measureLineWidth(word, fnt, sc, spacing)) /\ currentLine # <<>>

\* testWidth > maxWidth && currentLine
Overflows(testLine, currentLine, word, width, fnt, sc, spacing) ==
  Lt(width, measureLineWidth(testLine, fnt, sc, spacing)) /\ currentLine # <<>>

\* The for loop over words, from word k on.
RECURSIVE LayoutLoop(_, _, _, _, _, _, _, _)
LayoutLoop(words, k, out, currentLine, width, fnt, sc, spacing) ==
  IF k > Len(words)
  THEN IF currentLine # <<>> THEN Append(out, currentLine) ELSE out
  ELSE LET word == words[k]
           testLine == IF currentLine # <<>> THEN currentLine \o <<" ">> \o word ELSE word
       IN IF Overflows(testLine, currentLine, word, width, fnt, sc, spacing)
          THEN LayoutLoop(words, k + 1, Append(out, currentLine), word,
                          width, fnt, sc, spacing)
          ELSE LayoutLoop(words, k + 1, out, testLine, width, fnt, sc, spacing)

layoutTextIntoLines(str, width, fnt, sc, spacing) ==
  LayoutLoop(SplitWhitespace(str), 1, <<>>, <<>>, width, fnt, sc, spacing)

\* The longest text laid out.
MaxTextLen == 4

Texts == UNION {[1 .. n -> {"A", "B", " ", "\t"}] : n \in 0 .. MaxTextLen}

\* Letter spacings in px: one that makes the space narrower than nothing, a
\* small negative one, none, and the 2 px of the worked example.
LetterSpacings == {Num(-40), Num(-5), Num(0), Num(2)}

\* Widths in px: narrower than any word, between the words "B" and "A", around
\* the ties of "A B" at the spacings above, and one no text reaches.
MaxWidths == {Num(16), Num(50), Num(120), Num(134), Num(135), Num(1000)}


\* ---------------------------------------------------------- data lookup

\* arr.sort((a, b) => a.year - b.year): a stable sort by year.
RECURSIVE SortByYear(_)
SortByYear(arr) ==
  IF arr = <<>> THEN <<>>
  ELSE LET rest == SortByYear(SubSeq(arr, 1, Len(arr) - 1))
           d == arr[Len(arr)]
           n == Cardinality({i \in 1 .. Len(rest) : rest[i].year <= d.year})
       IN SubSeq(rest, 1, n) \o <<d>> \o SubSeq(rest, n + 1, Len(rest))

\* parseCSV on the rows of the file after the header, each already split into
\* country, year and score: dataByCountry, every country's rows sorted by year.
parseCSV(rows) ==
  [c \in {rows[i].country : i \in 1 .. Len(rows)} |->
     SortByYear(SelectSeq([i \in 1 .. Len(rows) |->
                             [country |-> rows[i].country, year |-> rows[i].year,
                              score |-> rows[i].score]],
                          LAMBDA r : r.country = c))]

\* Array.from(dataByCountry.keys()).sort(), the countries being "X" and "Y".
SortedKeys(keys) == SelectSeq(<<"X", "Y">>, LAMBDA c : c \in keys)

\* The rest of the loop of getCurrentScore, from entry k on.
RECURSIVE BestAtOrBefore(_, _, _, _)
BestAtOrBefore(arr, k, year, best) ==
  IF k > Len(arr) THEN best
  ELSE BestAtOrBefore(arr, k + 1, year,
                      IF arr[k].year <= year /\ arr[k].year >= best.year
                      THEN arr[k] ELSE best)

getCurrentScore(data, country, year) ==
  IF country.str \notin DOMAIN data THEN None
  ELSE LET arr == data[country.str]
           exact == {i \in 1 .. Len(arr) : Num(arr[i].year) = year}
       IN IF Len(arr) = 0 THEN None
          ELSE IF exact # {}
          THEN arr[CHOOSE i \in exact : \A h \in exact : i <= h].score
          ELSE BestAtOrBefore(arr, 1, year.n, arr[1]).score

\* ------------------------------------------------------------- drawing

\* String.prototype.trim
RECURSIVE Trim(_)
Trim(str) ==
  IF str = <<>> THEN str
  ELSE IF str[1] \in Whitespace THEN Trim(Tail(str))
  ELSE IF str[Len(str)] \in Whitespace THEN Trim(SubSeq(str, 1, Len(str) - 1))
  ELSE str

\* Number.prototype.toFixed(3) of a value >= 0: the count of thousandths.
ToFixed3(v) == [thousandths |-> MathRound(Mul(v, Num(1000)))]

\* The glyph loop of one line, from character i on: the fill instructions so
\* far and x after the last glyph.
RECURSIVE DrawLine(_, _, _, _, _, _, _, _, _)
DrawLine(line, i, x, y, f, fontSize, spacing, level, fills) ==
  IF i > Len(line) THEN [x |-> x, fills |-> fills]
  ELSE DrawLine(line, i + 1,
                Add(x, Add(Mul(Num(charToGlyph(f, line[i]).advanceWidth),
                               Rat(fontSize, OrElse(Num(f.unitsPerEm), Num(1000)).n)),
                           spacing)),
                y, f, fontSize, spacing, level,
                Append(fills, [op |-> "fill", glyph |-> line[i], x |-> x, y |-> y,
                               fontSize |-> fontSize, distortionLevel |-> level]))

\* The fills and pen positions once a line is drawn.
AfterLine(acc, line, x, drawn) ==
  [fills |-> drawn.fills,
   pen |-> Append(acc.pen, [line |-> line, start |-> x, x |-> drawn.x])]

\* One pass of the loop over the lines: line k drawn at y after what acc holds.
DrawOneLine(lns, k, y, f, fontSize, spacing, level, width, acc) ==
  LET sc == Rat(fontSize, OrElse(Num(f.unitsPerEm), Num(1000)).n)
      lineWidth == measureLineWidth(lns[k], f, sc, spacing)
      x == Mul(Sub(width, lineWidth), Rat(1, 2))
  IN AfterLine(acc, lns[k], x,
               DrawLine(lns[k], 1, x, y, f, fontSize, spacing, level, acc.fills))

\* The loop over the lines, from line k on.
RECURSIVE DrawLines(_, _, _, _, _, _, _, _, _, _)
DrawLines(lns, k, y, f, fontSize, spacing, lineHeightFactor, level, width, acc) ==
  IF k > Len(lns) THEN acc
  ELSE DrawLines(lns, k + 1, Add(y, Mul(Num(fontSize), lineHeightFactor)),
                 f, fontSize, spacing, lineHeightFactor, level, width,
                 DrawOneLine(lns, k, y, f, fontSize, spacing, level, width, acc))

\* Lines 386-422 of drawOutput: what they write to the canvas.  Reading
\* font.unitsPerEm of a null font throws.
DrawText(m, d, str, level) ==
  IF m.font = None THEN [trace |-> <<>>, pen |-> <<>>, threw |-> TRUE]
  ELSE
    LET fontSize == OrElse(Num(d.fontSizeInput), Num(120)).n
        spacing == OrElse(Num(d.letterSpacingInput), Num(0))
        lineHeightFactor == OrElse(Rat(d.lineHeightInput, 100), Rat(12, 10))
        unitsPerEm == OrElse(Num(m.font.unitsPerEm), Num(1000)).n
        sc == Rat(fontSize, unitsPerEm)
        maxLineWidth == Mul(Num(d.canvas.width), Rat(8, 10))
        lns == layoutTextIntoLines(str, maxLineWidth, m.font, sc, spacing)
        totalHeight == Mul(Num(Len(lns) * fontSize), lineHeightFactor)
        y == Add(Mul(Sub(Num(d.canvas.height), totalHeight), Rat(1, 2)), Num(fontSize))
        drawn == DrawLines(lns, 1, y, m.font, fontSize, spacing, lineHeightFactor,
                           level, Num(d.canvas.width), [fills |-> <<>>, pen |-> <<>>])
    IN [trace |-> <<[op |-> "clearRect", width |-> d.canvas.width,
                     height |-> d.canvas.height],
                    [op |-> "fillStyle", style |-> "#000000"],
                    [op |-> "save"]>>
                  \o drawn.fills \o <<[op |-> "restore"]>>,
        pen |-> drawn.pen,
        threw |-> FALSE]

\* The body of drawOutput: the module state after the call, what the call
\* wrote, the lines' pen positions, and whether it threw.
drawOutputBody(m, d) ==
  LET str == IF Trim(d.textInput) # <<>> THEN Trim(d.textInput)
             ELSE <<"f", "o", "n", "t">>
      country == OrElse(m.currentCountry, d.countrySelect.value)
      year == OrElse(m.currentYear, d.yearSlider.value)
  IN IF ~Truthy(country)
     THEN [m |-> m, trace |-> <<>>, pen |-> <<>>, threw |-> FALSE]
     ELSE
       LET rawScore == getCurrentScore(m.dataByCountry, country, year)
           scoreValue == IF rawScore # None THEN rawScore ELSE Rat(1, 2)
           clampedScore == RMax(Num(0), RMin(Num(1), scoreValue))
           level == scoreToDistortion(clampedScore)
           col == scoreToColor(clampedScore)
           blurPx == Mul(level, Num(MAX_BLUR_PX))
           head == <<[op |-> "panelCountry", textContent |-> country],
                     [op |-> "panelYear", textContent |-> year],
                     [op |-> "panelScore", textContent |-> ToFixed3(clampedScore)],
                     [op |-> "background", color |-> col],
                     [op |-> "blur", px |-> blurPx]>>
           m1 == [m EXCEPT !.currentScore = clampedScore]
       IN IF m.font = None
          THEN [m |-> m1, trace |-> head, pen |-> <<>>, threw |-> FALSE]
          ELSE LET text1 == DrawText(m, d, str, level)
               IN [m |-> m1, trace |-> head \o text1.trace,
                   pen |-> text1.pen, threw |-> text1.threw]

\* A plausible slip: the font test ahead of the panel and background update.
drawOutputFontFirst(m, d) ==
  IF m.font = None THEN [m |-> m, trace |-> <<>>, pen |-> <<>>, threw |-> FALSE]
  ELSE drawOutputBody(m, d)

\* A plausible slip: the year of the row the score came from written back
\* to currentYear.
drawOutputSnapsYear(m, d) ==
  LET country == OrElse(m.currentCountry, d.countrySelect.value)
      year == OrElse(m.currentYear, d.yearSlider.value)
  IN IF Truthy(country) /\ getCurrentScore(m.dataByCountry, country, year) # None
     THEN [drawOutputBody(m, d) EXCEPT
             !.m.currentYear =
                Num(BestAtOrBefore(m.dataByCountry[country.str], 1, year.n,
                                   m.dataByCountry[country.str][1]).year)]
     ELSE drawOutputBody(m, d)

\* A call of drawOutput.
drawOutput(m, d) == drawOutputBody(m, d)

\* ------------------------------------------------------ specifications

Scores == {Rat(k, ScoreDen) : k \in (0 - ScoreDen) .. (2 * ScoreDen)}

scoreVars == <<score, distortion, color>>

ScoreIdle == score = None /\ distortion = None /\ color = None

distortVars == <<path, distortionLevel, input>>

DistortIdle == path = None /\ distortionLevel = None /\ input = None

layoutVars == <<text, maxWidth, scale, letterSpacing, lines>>

LayoutIdle ==
  /\ text = None /\ maxWidth = None /\ scale = None
  /\ letterSpacing = None /\ lines = None

progVars ==
  <<font, dataByCountry, currentCountry, currentYear, currentScore,
    textInput, countrySelect, yearSlider, fontSizeInput, letterSpacingInput,
    lineHeightInput, canvas, labels, trace, pen, threw, atCall>>

ProgIdle ==
  /\ font = None /\ dataByCountry = None /\ currentCountry = None
  /\ currentYear = None /\ currentScore = None
  /\ textInput = None /\ countrySelect = None /\ yearSlider = None
  /\ fontSizeInput = None /\ letterSpacingInput = None /\ lineHeightInput = None
  /\ canvas = None /\ labels = None /\ trace = None /\ pen = None
  /\ threw = None /\ atCall = None

vars == <<scoreVars, distortVars, layoutVars, progVars, pc>>

InitScore ==
  /\ score \in Scores
  /\ distortion = None
  /\ color = None
  /\ pc = "score"
  /\ DistortIdle
  /\ LayoutIdle
  /\ ProgIdle

CallScoreToDistortion ==
  /\ pc = "score"
  /\ distortion = None
  /\ distortion' = scoreToDistortion(score)
  /\ UNCHANGED <<score, color, pc, distortVars, layoutVars, progVars>>

CallScoreToColor ==
  /\ pc = "score"
  /\ color = None
  /\ color' = scoreToColor(score)
  /\ UNCHANGED <<score, distortion, pc, distortVars, layoutVars, progVars>>


InitDistort ==
  /\ path \in [commands : Paths]
  /\ input = path.commands
  /\ distortionLevel \in Levels
  /\ pc = "distort"
  /\ ScoreIdle
  /\ LayoutIdle
  /\ ProgIdle

CallDistortPath ==
  /\ pc = "distort"
  /\ \E stream \in RandomStreams :
       path' = [path EXCEPT !.commands = distortPath(path.commands, distortionLevel, stream)]
  /\ pc' = "distorted"
  /\ UNCHANGED <<distortionLevel, input, scoreVars, layoutVars, progVars>>

InitLayout ==
  /\ text \in Texts
  /\ maxWidth \in MaxWidths
  /\ scale = Rat(100, LoadedFont.unitsPerEm)
  /\ letterSpacing \in LetterSpacings
  /\ lines = None
  /\ pc = "layout"
  /\ ScoreIdle
  /\ DistortIdle
  /\ ProgIdle

CallLayoutTextIntoLines ==
  /\ pc = "layout"
  /\ lines' = layoutTextIntoLines(text, maxWidth, LoadedFont, scale, letterSpacing)
  /\ pc' = "laidOut"
  /\ UNCHANGED <<text, maxWidth, scale, letterSpacing, scoreVars, distortVars, progVars>>


\* ------------------------------------------------------- the program

\* The rows of the CSV file: none, or two countries with rows out of order,
\* a year without a row, and scores outside [0, 1].
Datasets ==
  {<<>>,
   <<[country |-> "X", year |-> 2002, score |-> Rat(-1, 4)],
     [country |-> "Y", year |-> 2001, score |-> Rat(5, 4)],
     [country |-> "X", year |-> 2000, score |-> Rat(1, 2)]>>}

\* What the user types, picks and resizes to.
TypedTexts == {<<>>, <<"A", " ", "B">>, <<" ", "B", "A", "\t", " ", "A", " ">>}
FontSizes == {0, 100}
SpacingValues == {-5, 2}
LineHeights == {0, 150}
CanvasSizes == {[width |-> 150, height |-> 100], [width |-> 1000, height |-> 600]}

ModuleState ==
  [font |-> font, dataByCountry |-> dataByCountry, currentCountry |-> currentCountry,
   currentYear |-> currentYear, currentScore |-> currentScore]

Dom ==
  [textInput |-> textInput, countrySelect |-> countrySelect, yearSlider |-> yearSlider,
   fontSizeInput |-> fontSizeInput, letterSpacingInput |-> letterSpacingInput,
   lineHeightInput |-> lineHeightInput, canvas |-> canvas]

\* The state a handler leaves: m and d as the handler set them, then drawOutput.
ThenDrawOutput(m, d) ==
  \E r \in {drawOutput(m, d)} :
     /\ font' = r.m.font
     /\ dataByCountry' = r.m.dataByCountry
     /\ currentCountry' = r.m.currentCountry
     /\ currentYear' = r.m.currentYear
     /\ currentScore' = r.m.currentScore
     /\ textInput' = d.textInput
     /\ countrySelect' = d.countrySelect
     /\ yearSlider' = d.yearSlider
     /\ fontSizeInput' = d.fontSizeInput
     /\ letterSpacingInput' = d.letterSpacingInput
     /\ lineHeightInput' = d.lineHeightInput
     /\ canvas' = d.canvas
     /\ trace' = r.trace
     /\ pen' = r.pen
     /\ threw' = r.threw
     /\ atCall' = m

\* updateYearSliderForCountry: the module state, DOM and labels after it.
updateYearSliderForCountry(m, d, l, country) ==
  IF country.str \notin DOMAIN m.dataByCountry \/ Len(m.dataByCountry[country.str]) = 0
  THEN [m |-> m, d |-> d, l |-> l]
  ELSE LET arr == m.dataByCountry[country.str]
           minYear == arr[1].year
           maxYear == arr[Len(arr)].year
       IN [m |-> [m EXCEPT !.currentYear = Num(maxYear)],
           d |-> [d EXCEPT !.yearSlider = [min |-> Num(minYear), max |-> Num(maxYear),
                                           value |-> Num(maxYear)]],
           l |-> [l EXCEPT !.yearMin = Num(minYear), !.yearMax = Num(maxYear),
                           !.yearValue = Num(maxYear)]]

\* Module state and DOM when the script has run to the first await of init().
\* The page sets the inputs' initial values and the labels that show them:
\* any of the values the user can pick; a year slider without attributes is
\* 0..100 at 50, a canvas 300 x 150.
InitProgram ==
  /\ font = None
  /\ dataByCountry = <<>>
  /\ currentCountry = None
  /\ currentYear = None
  /\ currentScore = None
  /\ textInput = <<>>
  /\ countrySelect = [options |-> <<>>, value |-> Str("")]
  /\ yearSlider = [min |-> Num(0), max |-> Num(100), value |-> Num(50)]
  /\ fontSizeInput \in FontSizes
  /\ letterSpacingInput \in SpacingValues
  /\ lineHeightInput \in LineHeights
  /\ canvas = [width |-> 300, height |-> 150]
  /\ labels = [yearValue |-> None, yearMin |-> None, yearMax |-> None,
               fontSizeValue |-> [px |-> fontSizeInput],
               letterSpacingValue |-> letterSpacingInput,
               lineHeightValue |-> [hundredths |-> lineHeightInput]]
  /\ trace = <<>>
  /\ pen = <<>>
  /\ threw = FALSE
  /\ atCall = None
  /\ pc = "fetching"
  /\ ScoreIdle
  /\ DistortIdle
  /\ LayoutIdle

\* drawOutput and the handlers taken on their own: the state after parseCSV
\* and populateCountryDropdown, with the font loaded or not, and the default
\* year of the first country set or not.
InitDraw ==
  /\ font \in {None, LoadedFont}
  /\ \E rows \in Datasets, yearSet \in BOOLEAN :
       LET data == parseCSV(rows)
           countries == SortedKeys(DOMAIN data)
           country == IF Len(countries) > 0 THEN Str(countries[1]) ELSE None
           maxYear == IF Len(countries) > 0 /\ yearSet
                      THEN Num(data[countries[1]][Len(data[countries[1]])].year)
                      ELSE None
       IN /\ dataByCountry = data
          /\ countrySelect =
               [options |-> countries,
                value |-> IF Len(countries) > 0 THEN Str(countries[1]) ELSE Str("")]
          /\ currentCountry = country
          /\ currentYear = maxYear
          /\ yearSlider =
               IF maxYear = None THEN [min |-> Num(0), max |-> Num(100), value |-> Num(50)]
               ELSE [min |-> Num(data[countries[1]][1].year), max |-> maxYear,
                     value |-> maxYear]
  /\ currentScore = None
  /\ textInput = <<>>
  /\ fontSizeInput \in FontSizes
  /\ letterSpacingInput \in SpacingValues
  /\ lineHeightInput \in LineHeights
  /\ canvas \in CanvasSizes
  /\ labels = [yearValue |-> None, yearMin |-> None, yearMax |-> None,
               fontSizeValue |-> [px |-> fontSizeInput],
               letterSpacingValue |-> letterSpacingInput,
               lineHeightValue |-> [hundredths |-> lineHeightInput]]
  /\ trace = <<>>
  /\ pen = <<>>
  /\ threw = FALSE
  /\ atCall = None
  /\ pc = "ready"
  /\ ScoreIdle
  /\ DistortIdle
  /\ LayoutIdle

\* init() from the fetch to the await of loadFont(): parseCSV and
\* populateCountryDropdown.
FetchDone ==
  /\ pc = "fetching"
  /\ \E rows \in Datasets :
       LET data == parseCSV(rows)
           countries == SortedKeys(DOMAIN data)
       IN /\ dataByCountry' = data
          /\ countrySelect' =
               [options |-> countries,
                value |-> IF Len(countries) > 0 THEN Str(countries[1]) ELSE Str("")]
          /\ currentCountry' =
               IF Len(countries) > 0 THEN Str(countries[1]) ELSE currentCountry
  /\ pc' = "loadingFont"
  /\ UNCHANGED <<font, currentYear, currentScore, textInput, yearSlider, fontSizeInput,
                 letterSpacingInput, lineHeightInput, canvas, labels, trace, pen,
                 threw, atCall, scoreVars, distortVars, layoutVars>>

\* fetch rejects: the catch of init() logs, nothing is wired.
FetchFailed ==
  /\ pc = "fetching"
  /\ pc' = "failed"
  /\ UNCHANGED <<progVars, scoreVars, distortVars, layoutVars>>

\* loadFont() resolves: init() sets the default country and year, attaches
\* the listeners, sizes the canvas and draws.
FontLoaded ==
  /\ pc = "loadingFont"
  /\ \E size \in CanvasSizes :
       LET m0 == [ModuleState EXCEPT !.font = LoadedFont]
           m1 == IF Len(countrySelect.options) > 0
                 THEN [m0 EXCEPT !.currentCountry = countrySelect.value]
                 ELSE m0
           u == IF Len(countrySelect.options) > 0
                THEN updateYearSliderForCountry(m1, Dom, labels, m1.currentCountry)
                ELSE [m |-> m1, d |-> Dom, l |-> labels]
       IN /\ ThenDrawOutput(u.m, [u.d EXCEPT !.canvas = size])
          /\ labels' = u.l
  /\ pc' = "ready"
  /\ UNCHANGED <<scoreVars, distortVars, layoutVars>>

\* loadFont() rejects: the catch of init() logs, nothing is wired.
FontFailed ==
  /\ pc = "loadingFont"
  /\ pc' = "failed"
  /\ UNCHANGED <<progVars, scoreVars, distortVars, layoutVars>>

\* textInput "input": drawOutput.
TextInputEvent ==
  /\ pc = "ready"
  /\ \E v \in TypedTexts : ThenDrawOutput(ModuleState, [Dom EXCEPT !.textInput = v])
  /\ UNCHANGED <<labels, pc, scoreVars, distortVars, layoutVars>>

\* countrySelect "change"
CountryChangeEvent ==
  /\ pc = "ready"
  /\ \E i \in 1 .. Len(countrySelect.options) :
       LET d0 == [Dom EXCEPT !.countrySelect.value = Str(countrySelect.options[i])]
           m0 == [ModuleState EXCEPT !.currentCountry = d0.countrySelect.value]
           u == updateYearSliderForCountry(m0, d0, labels, m0.currentCountry)
       IN /\ ThenDrawOutput(u.m, u.d)
          /\ labels' = u.l
  /\ UNCHANGED <<pc, scoreVars, distortVars, layoutVars>>

\* yearSlider "input": the slider moved to its minimum, the next year or its
\* maximum.
YearInputEvent ==
  /\ pc = "ready"
  /\ \E y \in {yearSlider.min, Add(yearSlider.min, Num(1)), yearSlider.max} :
       /\ ThenDrawOutput([ModuleState EXCEPT !.currentYear = y],
                         [Dom EXCEPT !.yearSlider.value = y])
       /\ labels' = [labels EXCEPT !.yearValue = y]
  /\ UNCHANGED <<pc, scoreVars, distortVars, layoutVars>>

\* fontSizeInput "input"
FontSizeInputEvent ==
  /\ pc = "ready"
  /\ \E v \in FontSizes :
       /\ ThenDrawOutput(ModuleState, [Dom EXCEPT !.fontSizeInput = v])
       /\ labels' = [labels EXCEPT !.fontSizeValue = [px |-> v]]
  /\ UNCHANGED <<pc, scoreVars, distortVars, layoutVars>>

\* letterSpacingInput "input"
LetterSpacingInputEvent ==
  /\ pc = "ready"
  /\ \E v \in SpacingValues :
       /\ ThenDrawOutput(ModuleState, [Dom EXCEPT !.letterSpacingInput = v])
       /\ labels' = [labels EXCEPT !.letterSpacingValue = v]
  /\ UNCHANGED <<pc, scoreVars, distortVars, layoutVars>>

\* lineHeightInput "input": the label shows (value / 100).toFixed(2).
LineHeightInputEvent ==
  /\ pc = "ready"
  /\ \E v \in LineHeights :
       /\ ThenDrawOutput(ModuleState, [Dom EXCEPT !.lineHeightInput = v])
       /\ labels' = [labels EXCEPT !.lineHeightValue = [hundredths |-> v]]
  /\ UNCHANGED <<pc, scoreVars, distortVars, layoutVars>>

\* window "resize": resizeCanvas, then drawOutput.
ResizeEvent ==
  /\ pc = "ready"
  /\ \E size \in CanvasSizes : ThenDrawOutput(ModuleState, [Dom EXCEPT !.canvas = size])
  /\ UNCHANGED <<labels, pc, scoreVars, distortVars, layoutVars>>

NextScore == CallScoreToDistortion \/ CallScoreToColor

NextDistort == CallDistortPath

SpecScore == InitScore /\ [][NextScore]_vars

SpecDistort == InitDistort /\ [][NextDistort]_vars

NextLayout == CallLayoutTextIntoLines

SpecLayout == InitLayout /\ [][NextLayout]_vars

Handlers ==
  \/ TextInputEvent
  \/ CountryChangeEvent
  \/ YearInputEvent
  \/ FontSizeInputEvent
  \/ LetterSpacingInputEvent
  \/ LineHeightInputEvent
  \/ ResizeEvent

Next == FetchDone \/ FetchFailed \/ FontLoaded \/ FontFailed \/ Handlers

Spec == InitProgram /\ [][Next]_vars

NextDraw == Handlers

SpecDraw == InitDraw /\ [][NextDraw]_vars

\* ------------------------------------------------- claims on distortPath

\* The number of points the claims expect before each L, Q or C command.
ExpectedExtra ==
  LET r == MathRound(Mul(distortionLevel, Num(MAX_EXTRA_POINTS)))
  IN IF r < 0 THEN 0 ELSE r

IsSegment(j) == input[j].type \in {"L", "Q", "C"}

\* Where the j-th command passed in is expected in the result.
OutPos(j) == j + ExpectedExtra * Cardinality({i \in 1 .. j : IsSegment(i)})

\* The cursor at the j-th command passed in: the target of the last M, L, Q
\* or C command before it, (0,0) when there is none.
CursorAt(j) ==
  LET before == {i \in 1 .. (j - 1) : input[i].type \in {"M", "L", "Q", "C"}}
  IN IF before = {} THEN [x |-> Num(0), y |-> Num(0)]
     ELSE LET last == CHOOSE i \in before : \A h \in before : h <= i
          IN [x |-> input[last].x, y |-> input[last].y]

\* The i-th point of the straight segment from the cursor to the target of
\* the j-th command, and the i-th command of the result that precedes it.
StraightPoint(j, i) ==
  LET c == CursorAt(j)
      t == Rat(i, ExpectedExtra + 1)
  IN [x |-> Add(c.x, Mul(Sub(input[j].x, c.x), t)),
      y |-> Add(c.y, Mul(Sub(input[j].y, c.y), t))]

Inserted(j, i) == path.commands[OutPos(j) - ExpectedExtra - 1 + i]

JitterBound(j) ==
  Mul(distortionLevel, Num(IF input[j].type = "L" THEN 3 ELSE 5))

\* C1: after distortPath, path.commands holds the commands passed in, unchanged
\* and in order, with exactly E = max(0, round(level * MAX_EXTRA_POINTS)) commands
\* of type L inserted right before every L, Q or C command and nothing before
\* any other command.
C1_ExactInsertion ==
  pc = "distorted" =>
    /\ Len(path.commands) = OutPos(Len(input))
    /\ \A j \in 1 .. Len(input) :
         /\ path.commands[OutPos(j)] = input[j]
         /\ IF IsSegment(j)
            THEN /\ OutPos(j) = (IF j = 1 THEN 0 ELSE OutPos(j - 1)) + ExpectedExtra + 1
                 /\ \A i \in 1 .. ExpectedExtra : Inserted(j, i).type = "L"
            ELSE OutPos(j) = (IF j = 1 THEN 0 ELSE OutPos(j - 1)) + 1

\* Level 1 on a path M, L, Z: ten points before the L, none before M or Z.
C1_Witness ==
  /\ pc = "distorted"
  /\ distortionLevel = Num(1)
  /\ Len(input) = 3
  /\ input[1].type = "M" /\ input[2].type = "L" /\ input[3].type = "Z"
  /\ Len(path.commands) = 13
  /\ path.commands[1] = input[1]
  /\ path.commands[12] = input[2]
  /\ path.commands[13] = input[3]

\* C2: every inserted point lies within level*3 (before an L command) or
\* level*5 (before a Q or C command), on each axis, of the point at
\* t = i/(E+1) on the straight segment from the cursor to the command's target.
C2_JitterBounded ==
  pc = "distorted" =>
    \A j \in 1 .. Len(input) :
      IsSegment(j) =>
        \A i \in 1 .. ExpectedExtra :
          /\ Le(RAbs(Sub(Inserted(j, i).x, StraightPoint(j, i).x)), JitterBound(j))
          /\ Le(RAbs(Sub(Inserted(j, i).y, StraightPoint(j, i).y)), JitterBound(j))

\* A draw of 0 puts a point exactly level*3 from the segment before an L that
\* follows a Z, and exactly level*5 from it before a curve.
C2_Witness ==
  /\ pc = "distorted"
  /\ ExpectedExtra >= 2
  /\ Len(input) = 3
  /\ input[1].type \in {"Q", "C"} /\ input[2].type = "Z" /\ input[3].type = "L"
  /\ Sub(StraightPoint(1, 1).x, Inserted(1, 1).x) = JitterBound(1)
  /\ Sub(StraightPoint(3, 2).x, Inserted(3, 2).x) = JitterBound(3)
  /\ Inserted(3, 2).y # StraightPoint(3, 2).y

\* ----------------------------------------- claims on layoutTextIntoLines

\* The words of a returned line: the pieces between its single spaces.
RECURSIVE SplitOnSpace(_)
SplitOnSpace(line) ==
  LET sp == {i \in 1 .. Len(line) : line[i] = " "}
  IN IF sp = {} THEN <<line>>
     ELSE LET first == CHOOSE i \in sp : \A h \in sp : i <= h
          IN <<SubSeq(line, 1, first - 1)>>
               \o SplitOnSpace(SubSeq(line, first + 1, Len(line)))

RECURSIVE JoinWords(_)
JoinWords(words) ==
  IF Len(words) = 0 THEN <<>>
  ELSE IF Len(words) = 1 THEN words[1]
  ELSE words[1] \o <<" ">> \o JoinWords(Tail(words))

\* The whitespace-separated words of a text, read character by character.
RECURSIVE WordsOf(_, _)
WordsOf(str, word) ==
  IF str = <<>> THEN (IF word = <<>> THEN <<>> ELSE <<word>>)
  ELSE IF Head(str) \in Whitespace
       THEN (IF word = <<>> THEN <<>> ELSE <<word>>) \o WordsOf(Tail(str), <<>>)
       ELSE WordsOf(Tail(str), Append(word, Head(str)))

RECURSIVE Flatten(_)
Flatten(seqs) == IF seqs = <<>> THEN <<>> ELSE Head(seqs) \o Flatten(Tail(seqs))

LineWords == [k \in 1 .. Len(lines) |-> SplitOnSpace(lines[k])]

Width(str) == measureLineWidth(str, LoadedFont, scale, letterSpacing)

\* C3: a word joins a non-empty current line exactly when the line with a
\* space and the word measures at most maxWidth: every multi-word prefix of a
\* returned line fits, the first word of every following line did not fit on
\* the line before it, and a text of two words (no white space after the
\* second) whose joined width is maxWidth stays on one line while a joined
\* width of maxWidth + 1 gives the two words as two lines.
C3_AppendedIffFits ==
  pc = "laidOut" =>
    /\ \A k \in 1 .. Len(lines) :
         \A m \in 2 .. Len(LineWords[k]) :
           Le(Width(JoinWords(SubSeq(LineWords[k], 1, m))), maxWidth)
    /\ \A k \in 1 .. (Len(lines) - 1) :
         Lt(maxWidth, Width(lines[k] \o <<" ">> \o LineWords[k + 1][1]))
    /\ LET words == WordsOf(text, <<>>)
       IN (Len(words) = 2 /\ text[Len(text)] \notin Whitespace) =>
            /\ Width(JoinWords(words)) = maxWidth => Len(lines) = 1
            /\ Width(JoinWords(words)) = Add(maxWidth, Num(1)) => lines = words

\* "A B" measures exactly maxWidth and is one line.
C3_Witness ==
  /\ pc = "laidOut"
  /\ WordsOf(text, <<>>) = << <<"A">>, <<"B">> >>
  /\ Width(<<"A", " ", "B">>) = maxWidth
  /\ lines = << <<"A", " ", "B">> >>

\* C4: every returned line is a non-empty sequence of non-empty words joined
\* by single spaces, without a leading or trailing space; the words of the
\* lines in order are the whitespace-separated words of the text; a text that
\* is empty or all white space gives no line.
C4_LinesAreJoinedWords ==
  pc = "laidOut" =>
    /\ \A k \in 1 .. Len(lines) :
         /\ lines[k] # <<>>
         /\ \A w \in 1 .. Len(LineWords[k]) :
              /\ LineWords[k][w] # <<>>
              /\ \A i \in 1 .. Len(LineWords[k][w]) : LineWords[k][w][i] \notin Whitespace
    /\ Flatten(LineWords) = WordsOf(text, <<>>)
    /\ WordsOf(text, <<>>) = <<>> => lines = <<>>

TooWide(word) == Lt(maxWidth, Width(word))

\* C5 as stated: a word wider than maxWidth is a line of its own, whatever
\* the letter spacing, and every line of two or more words fits.
C5_WideWordAlone ==
  pc = "laidOut" =>
    /\ \A k \in 1 .. Len(lines) :
         /\ (\E w \in 1 .. Len(LineWords[k]) : TooWide(LineWords[k][w]))
              => Len(LineWords[k]) = 1
         /\ Len(LineWords[k]) >= 2 => Le(Width(lines[k]), maxWidth)
    /\ \A w \in 1 .. Len(WordsOf(text, <<>>)) :
         TooWide(WordsOf(text, <<>>)[w])
           => \E k \in 1 .. Len(lines) : lines[k] = WordsOf(text, <<>>)[w]

\* No character advances the pen backwards.
AdvancesNonNegative ==
  \A ch \in DOMAIN LoadedFont.glyphs :
    Le(Num(0), Add(Mul(Num(charToGlyph(LoadedFont, ch).advanceWidth), scale),
                   letterSpacing))

\* C5 (amended): every line of two or more words fits; and when no character
\* has a negative advance (advanceWidth * scale + letterSpacing >= 0), a word
\* wider than maxWidth is a line of its own.
C5_WideWordAloneIfAdvancesNonNegative ==
  pc = "laidOut" =>
    /\ \A k \in 1 .. Len(lines) :
         Len(LineWords[k]) >= 2 => Le(Width(lines[k]), maxWidth)
    /\ AdvancesNonNegative =>
         /\ \A k \in 1 .. Len(lines) :
              (\E w \in 1 .. Len(LineWords[k]) : TooWide(LineWords[k][w]))
                => Len(LineWords[k]) = 1
         /\ \A w \in 1 .. Len(WordsOf(text, <<>>)) :
              TooWide(WordsOf(text, <<>>)[w])
                => \E k \in 1 .. Len(lines) : lines[k] = WordsOf(text, <<>>)[w]

\* A negative letter spacing, no negative advance, and a word wider than
\* maxWidth before one that fits: two lines.
C5_Witness ==
  /\ pc = "laidOut"
  /\ Lt(letterSpacing, Num(0))
  /\ AdvancesNonNegative
  /\ Len(lines) = 2
  /\ TooWide(lines[1])
  /\ ~TooWide(<<"B">>)
  /\ lines[2] = <<"B">>

\* ------------------------------------------------- claims on drawOutput

Count(opName) == Cardinality({i \in 1 .. Len(trace) : trace[i].op = opName})

DrawOutputCalled == atCall # None

\* The country the last drawOutput call read.
CountryRead == OrElse(atCall.currentCountry, countrySelect.value)

FontSizeRead == IF fontSizeInput = 0 THEN 120 ELSE fontSizeInput
ScaleRead == Rat(FontSizeRead, font.unitsPerEm)

RECURSIVE SumAdvanceWidths(_)
SumAdvanceWidths(line) ==
  IF line = <<>> THEN 0
  ELSE LoadedFont.glyphs[Head(line)].advanceWidth + SumAdvanceWidths(Tail(line))

\* C8: measureLineWidth of a line is the sum over its characters of
\* advanceWidth * scale + letterSpacing, the spacing counted for every
\* character (600 and 500 at scale 0.1 and spacing 2 give 114), and for every
\* line drawOutput draws, x after the last glyph is the start x plus
\* measureLineWidth of the line.
C8_PenAdvanceIsMeasuredWidth ==
  /\ measureLineWidth(<<"A", "B">>, LoadedFont, Rat(1, 10), Num(2)) = Num(114)
  /\ (DrawOutputCalled /\ font # None) =>
       \A k \in 1 .. Len(pen) :
         /\ measureLineWidth(pen[k].line, font, ScaleRead, Num(letterSpacingInput))
              = Add(Mul(Num(SumAdvanceWidths(pen[k].line)), ScaleRead),
                    Num(Len(pen[k].line) * letterSpacingInput))
         /\ pen[k].x = Add(pen[k].start,
                           measureLineWidth(pen[k].line, font, ScaleRead,
                                            Num(letterSpacingInput)))

\* Two lines drawn at font size 100 and spacing 2: the first, "BA", moved
\* the pen by 114.
C8_Witness ==
  /\ DrawOutputCalled
  /\ fontSizeInput = 100
  /\ letterSpacingInput = 2
  /\ Len(pen) = 2
  /\ pen[1].line = <<"B", "A">>
  /\ Sub(pen[1].x, pen[1].start) = Num(114)
  /\ Count("fill") = 3

\* ------------------------------------------- claims on the score mapping

\* C9: scoreToDistortion(score) is 1 - clamp(score, 0, 1): 1 for a score <= 0,
\* 0 for a score >= 1, within [0, 1], and never larger for a larger score.
C9_DistortionIsOneMinusClamped ==
  distortion # None =>
    /\ distortion = (IF Le(score, Num(0)) THEN Num(1)
                     ELSE IF Le(Num(1), score) THEN Num(0)
                     ELSE Sub(Num(1), score))
    /\ Le(Num(0), distortion) /\ Le(distortion, Num(1))
    /\ \A s2 \in Scores :
         /\ Le(score, s2) => Le(scoreToDistortion(s2), distortion)
         /\ Le(s2, score) => Le(distortion, scoreToDistortion(s2))

\* scoreToDistortion(-0.5) = 1
C9_Witness ==
  /\ score = Rat(-1, 2)
  /\ distortion = Num(1)

\* C10: scoreToColor(0) = (220,40,40) and scoreToColor(1) = (20,210,120); the
\* channels are integers in 0..255; between scores in [0, 1] red does not
\* grow and green and blue do not shrink as the score grows; a score outside
\* [0, 1] gives the colour of the nearer end.
C10_ColorAnchorsRangeMonotone ==
  color # None =>
    /\ score = Num(0) => color = [r |-> 220, g |-> 40, b |-> 40]
    /\ score = Num(1) => color = [r |-> 20, g |-> 210, b |-> 120]
    /\ color.r \in 0 .. 255 /\ color.g \in 0 .. 255 /\ color.b \in 0 .. 255
    /\ Lt(score, Num(0)) => color = [r |-> 220, g |-> 40, b |-> 40]
    /\ Lt(Num(1), score) => color = [r |-> 20, g |-> 210, b |-> 120]
    /\ \A s2 \in Scores :
         (Le(Num(0), score) /\ Lt(score, s2) /\ Le(s2, Num(1))) =>
           /\ color.r >= scoreToColor(s2).r
           /\ color.g <= scoreToColor(s2).g
           /\ color.b <= scoreToColor(s2).b

\* scoreToColor(0.5) = (120,125,80)
C10_Witness ==
  /\ score = Rat(1, 2)
  /\ color = [r |-> 120, g |-> 125, b |-> 80]

====
